---- MODULE Spec2Model ----
(***************************************************************************)
(* Model of src/server.js: an Express backend with two routes,             *)
(*   POST /insert-term  (validation, escaping, SPARQL update, pass-through)*)
(*   GET  /graph        (fixed SPARQL query, flattening of the bindings)   *)
(* and the helper escapeSparqlString.                                      *)
(*                                                                         *)
(* Text is modelled as a sequence of symbols.  A symbol is one character   *)
(* ("BS" backslash, "DQ" double quote, "NL" newline, "CR" carriage return, *)
(* "TAB" tab, "SP" space, "<", ">", ".", "{", "}") or a run of ordinary    *)
(* characters ("a", "n", "skos:narrower", "Term_", ...).                   *)
(*                                                                         *)
(* A JavaScript value is a record [t |-> its type, v |-> its text].        *)
(***************************************************************************)
EXTENDS Integers, Sequences, FiniteSets, TLC

VARIABLES
    clock,      \* the value Date.now() returns
    op,         \* op[r]: the route request r was sent to ("none" before it arrives)
    pc,         \* pc[r]: "idle", "awaiting" (the store), "responded", "faulted"
    body,       \* body[r]: req.body of an insertion request
    termId,     \* termId[r]: the identifier generated for request r
    sent,       \* sent[r]: the texts request r has sent to the store, in order
    reply,      \* reply[r]: how the outbound call of request r ended
    responses,  \* responses[r]: the HTTP responses sent for request r, in order
    escIn,      \* argument of a direct call of escapeSparqlString
    escOut      \* its result

vars == <<clock, op, pc, body, termId, sent, reply, responses, escIn, escOut>>

(***************************************************************************)
(* Bounds of the model.                                                    *)
(***************************************************************************)
MaxStrLen == 3      \* longest argument of a direct call of escapeSparqlString
MaxFieldLen == 2    \* longest label / comment of a request body
MaxRows == 2        \* most rows in a store query result
NReq == 2           \* requests in flight in one process
MaxClock == 2       \* clock ticks observed

Reqs == 1..NReq

RECURSIVE SeqsUpTo(_, _)
SeqsUpTo(S, n) ==
    IF n = 0 THEN {<<>>}
    ELSE LET shorter == SeqsUpTo(S, n - 1)
         IN  shorter \cup {<<c>> \o s : c \in S, s \in {x \in shorter : Len(x) = n - 1}}

(***************************************************************************)
(* JavaScript values and truthiness.                                       *)
(***************************************************************************)
Undefined == [t |-> "undefined", v |-> <<>>]
Str(s) == [t |-> "string", v |-> s]
Num(s) == [t |-> "number", v |-> s]
TypeError == [t |-> "TypeError", v |-> <<>>]
Pending == [t |-> "pending", v |-> <<>>]

\* !x is false exactly for truthy x: a non-empty string, a non-zero number
Truthy(x) ==
    \/ x.t = "string" /\ x.v # <<>>
    \/ x.t = "number" /\ x.v # <<"0">>

(***************************************************************************)
(* escapeSparqlString, src/server.js:19-27.                                *)
(***************************************************************************)
\* String.prototype.replace with a /c/g pattern: every c becomes rep
RECURSIVE replaceAll(_, _, _)
replaceAll(s, c, rep) ==
    IF s = <<>> THEN <<>>
    ELSE (IF Head(s) = c THEN rep ELSE <<Head(s)>>) \o replaceAll(Tail(s), c, rep)

\* a plausible slip: the backslash pass runs last instead of first
escapeChainBackslashLast(s) ==
    replaceAll(
      replaceAll(
        replaceAll(
          replaceAll(
            replaceAll(s, "DQ", <<"BS", "DQ">>),
            "NL", <<"BS", "n">>),
          "CR", <<"BS", "r">>),
        "TAB", <<"BS", "t">>),
      "BS", <<"BS", "BS">>)

\* the chain of five replace calls, in the order of the source
escapeChain(s) ==
    replaceAll(
      replaceAll(
        replaceAll(
          replaceAll(
            replaceAll(s, "BS", <<"BS", "BS">>),
            "DQ", <<"BS", "DQ">>),
          "NL", <<"BS", "n">>),
        "CR", <<"BS", "r">>),
      "TAB", <<"BS", "t">>)

\* if (!str) return str; a truthy value without a replace method throws
escapeSparqlString(x) ==
    IF ~Truthy(x) THEN x
    ELSE IF x.t # "string" THEN TypeError
    ELSE Str(escapeChain(x.v))

(***************************************************************************)
(* The string-literal grammar of the query language (SPARQL 1.1,           *)
(* STRING_LITERAL2 and ECHAR): between the quotes, a backslash must be     *)
(* followed by one of t b n r f \ " ' and stands for that character; a raw *)
(* double quote, backslash, newline or carriage return is not allowed.     *)
(* This is the reader the escaped text is written for, not code of the     *)
(* repository.                                                             *)
(***************************************************************************)
EcharCodes == {"BS", "DQ", "n", "r", "t"}

EcharDecode(c) ==
    CASE c = "n" -> "NL"
      [] c = "r" -> "CR"
      [] c = "t" -> "TAB"
      [] OTHER -> c

BadLiteral == [ok |-> FALSE, v |-> <<>>]

RECURSIVE UnescapeLiteral(_)
UnescapeLiteral(s) ==
    IF s = <<>> THEN [ok |-> TRUE, v |-> <<>>]
    ELSE IF Head(s) = "BS"
         THEN IF Len(s) < 2 \/ s[2] \notin EcharCodes THEN BadLiteral
              ELSE LET rest == UnescapeLiteral(SubSeq(s, 3, Len(s)))
                   IN  IF rest.ok
                       THEN [ok |-> TRUE, v |-> <<EcharDecode(s[2])>> \o rest.v]
                       ELSE BadLiteral
    ELSE IF Head(s) \in {"DQ", "NL", "CR"} THEN BadLiteral
    ELSE LET rest == UnescapeLiteral(Tail(s))
         IN  IF rest.ok THEN [ok |-> TRUE, v |-> <<Head(s)>> \o rest.v]
             ELSE BadLiteral

\* every double quote of s is preceded by an escaping backslash
RECURSIVE NoUnescapedQuote(_)
NoUnescapedQuote(s) ==
    IF s = <<>> THEN TRUE
    ELSE IF Head(s) = "BS" THEN (Len(s) < 2 \/ NoUnescapedQuote(SubSeq(s, 3, Len(s))))
    ELSE Head(s) # "DQ" /\ NoUnescapedQuote(Tail(s))

NoRawControl(s) == \A i \in 1..Len(s) : s[i] \notin {"NL", "CR", "TAB"}

(***************************************************************************)
(* Direct calls of escapeSparqlString on bounded inputs.                   *)
(***************************************************************************)
EscapeChars == {"BS", "DQ", "NL", "CR", "TAB", "n", "r", "t", "a"}

EscapeInputs ==
    {Undefined, Num(<<"0">>), Num(<<"5">>)}
        \cup {Str(s) : s \in SeqsUpTo(EscapeChars, MaxStrLen)}

NoData == [t |-> "empty", rows |-> <<>>]
NoReply == [kind |-> "none", status |-> 0, data |-> NoData]

IdleRequests ==
    /\ clock = 0
    /\ op = [r \in Reqs |-> "none"]
    /\ pc = [r \in Reqs |-> "idle"]
    /\ body = [r \in Reqs |-> [label |-> Undefined, comment |-> Undefined, parentId |-> Undefined]]
    /\ termId = [r \in Reqs |-> <<>>]
    /\ sent = [r \in Reqs |-> <<>>]
    /\ reply = [r \in Reqs |-> NoReply]
    /\ responses = [r \in Reqs |-> <<>>]

requestVars == <<clock, op, pc, body, termId, sent, reply, responses>>

InitEscape ==
    /\ IdleRequests
    /\ escIn \in EscapeInputs
    /\ escOut = Pending

CallEscape ==
    /\ escOut = Pending
    /\ escOut' = escapeSparqlString(escIn)
    /\ UNCHANGED <<escIn, requestVars>>

NextEscape == CallEscape

SpecEscape == InitEscape /\ [][NextEscape]_vars

\* C4: for every string over backslash, double quote, newline, carriage
\* return, tab and ordinary characters, reading escapeSparqlString(s) by the
\* string-literal grammar gives back s, and the escaped text has no unescaped
\* double quote and no raw newline, carriage return or tab; an absent or
\* empty argument is returned unchanged.
C4_EscapeRoundTrip ==
    escOut # Pending =>
        /\ (escIn.t = "string" /\ escIn.v # <<>>) =>
               /\ escOut.t = "string"
               /\ UnescapeLiteral(escOut.v) = [ok |-> TRUE, v |-> escIn.v]
               /\ NoUnescapedQuote(escOut.v)
               /\ NoRawControl(escOut.v)
        /\ (escIn = Undefined \/ escIn = Str(<<>>)) => escOut = escIn

\* a string holding a backslash and a double quote has been escaped
C4_Witness ==
    /\ escOut.t = "string"
    /\ escIn.t = "string"
    /\ \E i, j \in 1..Len(escIn.v) : escIn.v[i] = "BS" /\ escIn.v[j] = "DQ"
    /\ Len(escOut.v) > Len(escIn.v)

(***************************************************************************)
(* POST /insert-term: the update text, src/server.js:40-55.                *)
(***************************************************************************)
\* `${x}` inside a template literal: the text of the value
TemplateText(x) == IF x.t = "undefined" THEN <<"undefined">> ELSE x.v

\* const termId = `Term_${Date.now()}`
GenTermId(now) == <<"Term_", ToString(now)>>

\* const termUri = `${BASE_URI}${termId}`
TermUri(tid) == <<"BASE_URI">> \o tid

\* the note line of the template: present only for a truthy escapedComment
NoteLine(uri, escapedComment) ==
    IF Truthy(escapedComment)
    THEN <<"<">> \o uri \o <<">", "SP", "skos:note", "SP", "DQ">>
             \o TemplateText(escapedComment) \o <<"DQ", "SP", ".">>
    ELSE <<>>

\* the hierarchy line of the template: parentId is interpolated as it is
HierarchyLine(uri, parentId) ==
    IF Truthy(parentId)
    THEN <<"<">> \o TemplateText(parentId)
             \o <<">", "SP", "skos:narrower", "SP", "<">> \o uri \o <<">", "SP", ".">>
    ELSE <<"<", "BASE_URI", "Root", ">", "SP", "skos:narrower", "SP", "<">> \o uri \o <<">", "SP", ".">>

\* const sparqlUpdate = ` PREFIX ... INSERT DATA { ... } `
SparqlUpdate(uri, escapedLabel, escapedComment, parentId) ==
    <<"NL", "PREFIX", "SP", "skos:", "SP", "<", "SKOS_NS", ">", "NL",
      "INSERT", "SP", "DATA", "SP", "{", "NL">>
    \o <<"<">> \o uri \o <<">", "SP", "skos:prefLabel", "SP", "DQ">>
    \o TemplateText(escapedLabel) \o <<"DQ", "SP", ".", "NL">>
    \o NoteLine(uri, escapedComment) \o <<"NL">>
    \o HierarchyLine(uri, parentId) \o <<"NL", "}", "NL">>

(***************************************************************************)
(* How the store reads an update text (SPARQL 1.1 grammar, the part the    *)
(* template uses): white space separates tokens; <...> is an IRI and may   *)
(* hold no white space, quote, backslash, brace or angle bracket; "..." is *)
(* a string literal read by UnescapeLiteral; the body of INSERT DATA is a  *)
(* list of  subject predicate object .  statements.  This is the reader    *)
(* the text is sent to, not code of the repository.                        *)
(***************************************************************************)
WhiteSpace == {"SP", "NL", "CR", "TAB"}
IriForbidden == WhiteSpace \cup {"<", ">", "DQ", "BS", "{", "}"}

\* position of the first ">" of s, 0 when an IRI cannot end
RECURSIVE IriEnd(_, _)
IriEnd(s, i) ==
    IF i > Len(s) THEN 0
    ELSE IF s[i] = ">" THEN i
    ELSE IF s[i] \in IriForbidden THEN 0
    ELSE IriEnd(s, i + 1)

\* position of the closing quote of a literal whose content starts at i
RECURSIVE QuoteEnd(_, _)
QuoteEnd(s, i) ==
    IF i > Len(s) THEN 0
    ELSE IF s[i] = "DQ" THEN i
    ELSE IF s[i] = "BS" THEN QuoteEnd(s, i + 2)
    ELSE QuoteEnd(s, i + 1)

BadLex == [ok |-> FALSE, toks |-> <<>>]

RECURSIVE Lex(_)
Lex(s) ==
    IF s = <<>> THEN [ok |-> TRUE, toks |-> <<>>]
    ELSE IF Head(s) \in WhiteSpace THEN Lex(Tail(s))
    ELSE IF Head(s) = "<"
         THEN LET e == IriEnd(s, 2)
              IN  IF e = 0 THEN BadLex
                  ELSE LET rest == Lex(SubSeq(s, e + 1, Len(s)))
                       IN  IF rest.ok
                           THEN [ok |-> TRUE,
                                 toks |-> <<[k |-> "iri", v |-> SubSeq(s, 2, e - 1)]>> \o rest.toks]
                           ELSE BadLex
    ELSE IF Head(s) = "DQ"
         THEN LET e == QuoteEnd(s, 2)
                  lit == IF e = 0 THEN BadLiteral ELSE UnescapeLiteral(SubSeq(s, 2, e - 1))
              IN  IF e = 0 \/ ~lit.ok THEN BadLex
                  ELSE LET rest == Lex(SubSeq(s, e + 1, Len(s)))
                       IN  IF rest.ok
                           THEN [ok |-> TRUE, toks |-> <<[k |-> "lit", v |-> lit.v]>> \o rest.toks]
                           ELSE BadLex
    ELSE IF Head(s) \in {"BS", ">"} THEN BadLex
    ELSE LET rest == Lex(Tail(s))
         IN  IF rest.ok
             THEN [ok |-> TRUE, toks |-> <<[k |-> "word", v |-> <<Head(s)>>]>> \o rest.toks]
             ELSE BadLex

Word(w) == [k |-> "word", v |-> <<w>>]

UpdateHeader ==
    <<Word("PREFIX"), Word("skos:"), [k |-> "iri", v |-> <<"SKOS_NS">>],
      Word("INSERT"), Word("DATA"), Word("{")>>

Predicates == {Word("skos:prefLabel"), Word("skos:note"), Word("skos:narrower")}

BadParse == [ok |-> FALSE, triples |-> <<>>]

\* the statements up to the closing brace
RECURSIVE ParseTriples(_)
ParseTriples(toks) ==
    IF toks = <<Word("}")>> THEN [ok |-> TRUE, triples |-> <<>>]
    ELSE IF Len(toks) < 5 THEN BadParse
    ELSE IF /\ toks[1].k = "iri"
            /\ toks[2] \in Predicates
            /\ toks[3].k \in {"iri", "lit"}
            /\ toks[4] = Word(".")
         THEN LET rest == ParseTriples(SubSeq(toks, 5, Len(toks)))
              IN  IF rest.ok
                  THEN [ok |-> TRUE,
                        triples |-> <<[s |-> toks[1].v, p |-> toks[2].v[1], o |-> toks[3]]>>
                                        \o rest.triples]
                  ELSE BadParse
    ELSE BadParse

ParseUpdate(text) ==
    LET lx == Lex(text)
    IN  IF ~lx.ok \/ Len(lx.toks) < Len(UpdateHeader) + 1 THEN BadParse
        ELSE IF SubSeq(lx.toks, 1, Len(UpdateHeader)) # UpdateHeader THEN BadParse
        ELSE ParseTriples(SubSeq(lx.toks, Len(UpdateHeader) + 1, Len(lx.toks)))

\* the statements of the update whose predicate is p
Assertions(text, p) ==
    LET pr == ParseUpdate(text)
    IN  {i \in 1..Len(pr.triples) : pr.triples[i].p = p}

(***************************************************************************)
(* The outbound call.  axios settles a call in one of three ways: the      *)
(* promise resolves with the store's response when its status is 2xx (the  *)
(* default validateStatus), rejects with error.response set for any other  *)
(* status, and rejects without error.response when no response arrived.    *)
(* The data of a response is "empty" (an empty body), "payload" (a         *)
(* non-empty body that is no result table), "noresults" (a JSON body       *)
(* without results.bindings) or "results" (a result table with rows).      *)
(***************************************************************************)
Resolved(status, data) == [kind |-> "resolved", status |-> status, data |-> data]
RejectedWith(status, data) == [kind |-> "rejected", status |-> status, data |-> data]
ConnectionFailure == [kind |-> "noresponse", status |-> 0, data |-> NoData]

Payload == [t |-> "payload", rows |-> <<>>]
NoResults == [t |-> "noresults", rows |-> <<>>]
Results(rows) == [t |-> "results", rows |-> rows]

\* validateStatus: status >= 200 && status < 300
AxiosSettle(status, data) ==
    IF status >= 200 /\ status < 300 THEN Resolved(status, data)
    ELSE RejectedWith(status, data)

Response(status, b) == [status |-> status, body |-> b, by |-> "handler"]

\* a plausible slip: the catch block always answers 500
CatchResponseAlways500(err, generic) ==
    Response(500, [error |-> IF err.kind = "rejected" /\ err.data.t # "empty"
                             THEN "store payload" ELSE generic])

\* a plausible slip: the status is taken from the error without a fallback
CatchResponseNoFallback(err, generic) ==
    Response(err.status, [error |-> IF err.kind = "rejected" /\ err.data.t # "empty"
                                    THEN "store payload" ELSE generic])

\* the catch block of both handlers, src/server.js:84-94 and 183-193
CatchResponse(err, generic) ==
    LET statusCode == IF err.kind = "rejected" THEN err.status ELSE 500
        errorMessage == IF err.kind = "rejected" /\ err.data.t # "empty"
                        THEN "store payload" ELSE generic
    IN  Response(statusCode, [error |-> errorMessage])

InsertGeneric == "Failed to insert Term into GraphDB."
GraphGeneric == "Failed to fetch data from GraphDB."

(***************************************************************************)
(* POST /insert-term, src/server.js:32-95.                                 *)
(***************************************************************************)
\* a plausible slip: only an absent label is refused
LabelMissingOnlyUndefined(b) == b.label = Undefined

\* if (!label)
LabelMissing(b) == ~Truthy(b.label)

\* The handler up to its await: validation, identifier, escaping, the update
\* text and the call of axios.post.  A TypeError of escapeSparqlString is
\* thrown before the try block is entered.
PostInsertTerm(r, b) ==
    /\ pc[r] = "idle"
    /\ op' = [op EXCEPT ![r] = "insert"]
    /\ body' = [body EXCEPT ![r] = b]
    /\ UNCHANGED <<clock, reply, escIn, escOut>>
    /\ IF LabelMissing(b)
       THEN /\ responses' = [responses EXCEPT ![r] =
                   Append(@, Response(400, [error |-> "Term label is required."]))]
            /\ pc' = [pc EXCEPT ![r] = "responded"]
            /\ UNCHANGED <<termId, sent>>
       ELSE LET tid == GenTermId(clock)
                escapedLabel == escapeSparqlString(b.label)
                escapedComment == escapeSparqlString(b.comment)
            IN  /\ termId' = [termId EXCEPT ![r] = tid]
                /\ IF escapedLabel = TypeError \/ escapedComment = TypeError
                   THEN /\ pc' = [pc EXCEPT ![r] = "faulted"]
                        /\ UNCHANGED <<sent, responses>>
                   ELSE /\ sent' = [sent EXCEPT ![r] = Append(@,
                               [endpoint |-> "statements",
                                text |-> SparqlUpdate(TermUri(tid), escapedLabel,
                                                      escapedComment, b.parentId)])]
                        /\ pc' = [pc EXCEPT ![r] = "awaiting"]
                        /\ UNCHANGED responses

\* a plausible slip: any resolved status counts as success
InsertTryResponseAnySuccess(tid, status) ==
    Response(200, [message |-> "Term inserted successfully!", termId |-> tid])

\* the try block after the await, src/server.js:70-83
InsertTryResponse(tid, status) ==
    IF status = 204
    THEN Response(200, [message |-> "Term inserted successfully!", termId |-> tid])
    ELSE Response(status,
             [message |-> "Term might have been inserted, but received unexpected status.",
              graphDbStatus |-> status])

\* the store answered the update: the promise settles and the handler resumes
InsertStoreAnswers(r, status, data) ==
    /\ pc[r] = "awaiting" /\ op[r] = "insert"
    /\ LET settled == AxiosSettle(status, data)
       IN  /\ reply' = [reply EXCEPT ![r] = settled]
           /\ responses' = [responses EXCEPT ![r] = Append(@,
                  IF settled.kind = "resolved"
                  THEN InsertTryResponse(termId[r], settled.status)
                  ELSE CatchResponse(settled, InsertGeneric))]
    /\ pc' = [pc EXCEPT ![r] = "responded"]
    /\ UNCHANGED <<clock, op, body, termId, sent, escIn, escOut>>

\* the store could not be reached: the promise rejects without a response
InsertCallFails(r) ==
    /\ pc[r] = "awaiting" /\ op[r] = "insert"
    /\ reply' = [reply EXCEPT ![r] = ConnectionFailure]
    /\ responses' = [responses EXCEPT ![r] =
           Append(@, CatchResponse(ConnectionFailure, InsertGeneric))]
    /\ pc' = [pc EXCEPT ![r] = "responded"]
    /\ UNCHANGED <<clock, op, body, termId, sent, escIn, escOut>>

(***************************************************************************)
(* GET /graph, src/server.js:99-194.                                       *)
(***************************************************************************)
Unbound == "UNBOUND"

\* binding.x ? binding.x.value : ''
ValueOrEmpty(x) == IF x = Unbound THEN "" ELSE x

Threw == [threw |-> TRUE, nodes |-> <<>>, edges |-> <<>>]

\* a plausible slip: an edge is pushed for every row
FlattenEveryRowAnEdge(rows, i, acc) ==
    [threw |-> \E k \in 1..Len(rows) : rows[k].node = Unbound,
     nodes |-> [k \in 1..Len(rows) |->
                  [id |-> rows[k].node, label |-> ValueOrEmpty(rows[k].label),
                   comment |-> ValueOrEmpty(rows[k].comment)]],
     edges |-> [k \in 1..Len(rows) |->
                  [source |-> rows[k].source, target |-> rows[k].node,
                   type |-> ValueOrEmpty(rows[k].relationshipType)]]]

\* bindings.forEach(...): binding.node.value throws when the row has no node
RECURSIVE Flatten(_, _, _)
Flatten(rows, i, acc) ==
    IF i > Len(rows) THEN acc
    ELSE IF rows[i].node = Unbound THEN Threw
    ELSE LET withNode == Append(acc.nodes,
                 [id |-> rows[i].node, label |-> ValueOrEmpty(rows[i].label),
                  comment |-> ValueOrEmpty(rows[i].comment)])
             withEdge == IF rows[i].source # Unbound
                         THEN Append(acc.edges,
                                  [source |-> rows[i].source, target |-> rows[i].node,
                                   type |-> ValueOrEmpty(rows[i].relationshipType)])
                         ELSE acc.edges
         IN  Flatten(rows, i + 1, [threw |-> FALSE, nodes |-> withNode, edges |-> withEdge])

EmptyGraph == [threw |-> FALSE, nodes |-> <<>>, edges |-> <<>>]

\* a TypeError raised inside the try block reaches the catch block as an
\* error without a response
ThrownInTry == ConnectionFailure

\* a plausible slip: an unexpected status is answered as 200
GraphTryResponseWarnAs200(status, data) ==
    IF status = 200 /\ data.t = "results" /\ ~Flatten(data.rows, 1, EmptyGraph).threw
    THEN Response(200, [nodes |-> Flatten(data.rows, 1, EmptyGraph).nodes,
                        edges |-> Flatten(data.rows, 1, EmptyGraph).edges])
    ELSE Response(200,
             [message |-> "Data might have been fetched, but received unexpected status.",
              graphDbStatus |-> status])

\* the try block after the await, src/server.js:148-182
GraphTryResponse(status, data) ==
    IF status = 200
    THEN IF data.t # "results" THEN CatchResponse(ThrownInTry, GraphGeneric)
         ELSE LET processedData == Flatten(data.rows, 1, EmptyGraph)
              IN  IF processedData.threw THEN CatchResponse(ThrownInTry, GraphGeneric)
                  ELSE Response(200, [nodes |-> processedData.nodes,
                                      edges |-> processedData.edges])
    ELSE Response(status,
             [message |-> "Data might have been fetched, but received unexpected status.",
              graphDbStatus |-> status])

\* the handler up to its await: the fixed query is sent to the store
GetGraph(r) ==
    /\ pc[r] = "idle"
    /\ op' = [op EXCEPT ![r] = "graph"]
    /\ sent' = [sent EXCEPT ![r] = Append(@, [endpoint |-> "query", text |-> <<"GRAPH_QUERY">>])]
    /\ pc' = [pc EXCEPT ![r] = "awaiting"]
    /\ UNCHANGED <<clock, body, termId, reply, responses, escIn, escOut>>

GraphStoreAnswers(r, status, data) ==
    /\ pc[r] = "awaiting" /\ op[r] = "graph"
    /\ LET settled == AxiosSettle(status, data)
       IN  /\ reply' = [reply EXCEPT ![r] = settled]
           /\ responses' = [responses EXCEPT ![r] = Append(@,
                  IF settled.kind = "resolved"
                  THEN GraphTryResponse(settled.status, settled.data)
                  ELSE CatchResponse(settled, GraphGeneric))]
    /\ pc' = [pc EXCEPT ![r] = "responded"]
    /\ UNCHANGED <<clock, op, body, termId, sent, escIn, escOut>>

GraphCallFails(r) ==
    /\ pc[r] = "awaiting" /\ op[r] = "graph"
    /\ reply' = [reply EXCEPT ![r] = ConnectionFailure]
    /\ responses' = [responses EXCEPT ![r] =
           Append(@, CatchResponse(ConnectionFailure, GraphGeneric))]
    /\ pc' = [pc EXCEPT ![r] = "responded"]
    /\ UNCHANGED <<clock, op, body, termId, sent, escIn, escOut>>

(***************************************************************************)
(* The environment of the handlers.                                        *)
(***************************************************************************)
\* time passes between two reads of Date.now()
Tick ==
    /\ clock < MaxClock
    /\ clock' = clock + 1
    /\ UNCHANGED <<op, pc, body, termId, sent, reply, responses, escIn, escOut>>

\* The promise of an async handler that threw is rejected.  What follows is
\* the router's doing and depends on its version: it may pass the rejection
\* to its default error handler, which answers 500, or ignore it, and then
\* nothing is ever sent.  This action is the first; not taking it, the second.
RouterAnswersRejection(r) ==
    /\ pc[r] = "faulted"
    /\ responses[r] = <<>>
    /\ responses' = [responses EXCEPT ![r] =
           Append(@, [status |-> 500, body |-> [error |-> "Internal Server Error"],
                      by |-> "router"])]
    /\ UNCHANGED <<clock, op, pc, body, termId, sent, reply, escIn, escOut>>

(***************************************************************************)
(* Inputs.                                                                 *)
(***************************************************************************)
FieldChars == {"a", "DQ", "BS", "NL"}

\* label and comment of a JSON body: absent, a number, or a string
FieldValues ==
    {Undefined, Num(<<"0">>), Num(<<"5">>)}
        \cup {Str(s) : s \in SeqsUpTo(FieldChars, MaxFieldLen)}

\* a parentId that closes the IRI it is put in and goes on with a statement
ParentClosingIri ==
    Str(<<"x", ">", "SP", "skos:narrower", "SP", "<", "y", ">", "SP", ".", "SP", "<", "z">>)

ParentValues == {Undefined, Str(<<>>), Str(<<"PARENT_URI">>), ParentClosingIri}

Bodies == [label : FieldValues, comment : FieldValues, parentId : ParentValues]

SmallBodies ==
    [label : {Undefined, Str(<<>>), Str(<<"a">>), Num(<<"5">>)},
     comment : {Undefined, Str(<<"a">>)},
     parentId : {Undefined, Str(<<"PARENT_URI">>)}]

StoreStatuses == {200, 202, 204, 404, 500}

\* rows of a result table: each column is bound to a value or unbound; the
\* query binds relationshipType in the OPTIONAL that binds source
Rows ==
    {row \in [node : {Unbound, "n1", "n2"}, label : {Unbound, "l1"},
              comment : {Unbound, "c1"}, source : {Unbound, "s1"},
              relationshipType : {Unbound, "skos:narrower"}] :
        (row.relationshipType = Unbound) <=> (row.source = Unbound)}

SmallRows ==
    {row \in [node : {Unbound, "n1"}, label : {Unbound}, comment : {Unbound},
              source : {Unbound, "s1"}, relationshipType : {Unbound, "skos:narrower"}] :
        (row.relationshipType = Unbound) <=> (row.source = Unbound)}

\* what the store may answer to the query: a result table only with status 200
GraphAnswers(rows, n) ==
    {<<st, d>> : st \in StoreStatuses, d \in {NoData, Payload}}
        \cup {<<200, d>> : d \in {NoResults} \cup {Results(x) : x \in SeqsUpTo(rows, n)}}

(***************************************************************************)
(* Spec: NReq requests served by one process, over small inputs.           *)
(***************************************************************************)
Init ==
    /\ IdleRequests
    /\ escIn = Undefined
    /\ escOut = Pending

\* The guard of an action is repeated in front of its inputs, so that the
\* inputs are enumerated only where the action can be taken.
Next ==
    \/ Tick
    \/ \E r \in Reqs : pc[r] = "idle" /\ \E b \in SmallBodies : PostInsertTerm(r, b)
    \/ \E r \in Reqs : pc[r] = "awaiting" /\ op[r] = "insert" /\
           \E st \in StoreStatuses, d \in {NoData, Payload} : InsertStoreAnswers(r, st, d)
    \/ \E r \in Reqs : InsertCallFails(r)
    \/ \E r \in Reqs : GetGraph(r)
    \/ \E r \in Reqs : pc[r] = "awaiting" /\ op[r] = "graph" /\
           \E a \in GraphAnswers(SmallRows, 1) : GraphStoreAnswers(r, a[1], a[2])
    \/ \E r \in Reqs : GraphCallFails(r)
    \/ \E r \in Reqs : RouterAnswersRejection(r)

Spec == Init /\ [][Next]_vars

(***************************************************************************)
(* SpecRequest: one request, over every body and every store answer of     *)
(* the bounds.                                                             *)
(***************************************************************************)
NextRequest ==
    \/ pc[1] = "idle" /\ \E b \in Bodies : PostInsertTerm(1, b)
    \/ pc[1] = "awaiting" /\ op[1] = "insert" /\
           \E st \in StoreStatuses, d \in {NoData, Payload} : InsertStoreAnswers(1, st, d)
    \/ InsertCallFails(1)
    \/ GetGraph(1)
    \/ pc[1] = "awaiting" /\ op[1] = "graph" /\
           \E a \in GraphAnswers(Rows, MaxRows) : GraphStoreAnswers(1, a[1], a[2])
    \/ GraphCallFails(1)
    \/ RouterAnswersRejection(1)

SpecRequest == Init /\ [][NextRequest]_vars

(***************************************************************************)
(* Claims.                                                                 *)
(***************************************************************************)
Inserting(r) == op[r] = "insert" /\ pc[r] # "idle"
Answered(r) == pc[r] = "responded" /\ Len(responses[r]) = 1
TheResponse(r) == responses[r][1]
HasKey(b, k) == k \in DOMAIN b

\* C1: a POST /insert-term whose label is absent or the empty string, whatever
\* comment and parentId are, is answered 400 with an error body, and nothing
\* is sent to the store in that request.
C1_EmptyLabelRefused ==
    \A r \in Reqs :
        (Inserting(r) /\ body[r].label \in {Undefined, Str(<<>>)}) =>
            /\ Answered(r)
            /\ TheResponse(r).status = 400
            /\ TheResponse(r).by = "handler"
            /\ HasKey(TheResponse(r).body, "error")
            /\ sent[r] = <<>>

\* an empty label came with a comment and a parentId, and was refused
C1_Witness ==
    \E r \in Reqs :
        /\ Inserting(r)
        /\ body[r].label = Str(<<>>)
        /\ Truthy(body[r].comment)
        /\ Truthy(body[r].parentId)
        /\ Answered(r)
        /\ TheResponse(r).status = 400

\* the statements of an update text, as the store reads it
LabelAssertions(text, uri) ==
    {i \in Assertions(text, "skos:prefLabel") : ParseUpdate(text).triples[i].s = uri}
NoteAssertions(text, uri) ==
    {i \in Assertions(text, "skos:note") : ParseUpdate(text).triples[i].s = uri}
HierarchyAssertions(text) == Assertions(text, "skos:narrower")

UpdateTextAsClaimed(r) ==
    LET text == sent[r][1].text
        uri == TermUri(termId[r])
        parent == IF Truthy(body[r].parentId) THEN TemplateText(body[r].parentId)
                  ELSE <<"BASE_URI", "Root">>
        triples == ParseUpdate(text).triples
    IN  /\ ParseUpdate(text).ok
        /\ Cardinality(LabelAssertions(text, uri)) = 1
        /\ Cardinality(NoteAssertions(text, uri)) = (IF Truthy(body[r].comment) THEN 1 ELSE 0)
        /\ Cardinality(HierarchyAssertions(text)) = 1
        /\ \A i \in HierarchyAssertions(text) :
               /\ triples[i].s = parent
               /\ triples[i].o = [k |-> "iri", v |-> uri]

\* C2: for every accepted insertion, with any comment and any parentId, the
\* update text sent to the store holds exactly one label assertion for the new
\* identifier, a note assertion iff the comment is non-empty, and exactly one
\* hierarchy assertion, which makes the new identifier narrower than parentId
\* when one is given and narrower than the Root otherwise.
C2_UpdateText ==
    \A r \in Reqs : (Inserting(r) /\ sent[r] # <<>>) => UpdateTextAsClaimed(r)

\* The same, for the bodies whose parentId is absent, empty or an IRI that
\* holds none of the characters an IRI may not hold.
UpdateTextWellFormedParent ==
    \A r \in Reqs :
        (/\ Inserting(r)
         /\ sent[r] # <<>>
         /\ \A i \in 1..Len(body[r].parentId.v) : body[r].parentId.v[i] \notin IriForbidden)
            => UpdateTextAsClaimed(r)

HasNode(row) == row.node # Unbound
HasSource(row) == row.source # Unbound

GraphAsClaimed(r) ==
    LET rows == reply[r].data.rows
        edgeRows == SelectSeq(rows, HasSource)
        b == TheResponse(r).body
    IN  /\ Answered(r)
        /\ TheResponse(r).status = 200
        /\ HasKey(b, "nodes") /\ HasKey(b, "edges")
        /\ Len(b.nodes) = Len(rows)
        /\ \A i \in 1..Len(rows) :
               b.nodes[i] = [id |-> rows[i].node,
                             label |-> IF rows[i].label = Unbound THEN "" ELSE rows[i].label,
                             comment |-> IF rows[i].comment = Unbound THEN "" ELSE rows[i].comment]
        /\ Len(b.edges) = Len(edgeRows)
        /\ \A j \in 1..Len(edgeRows) :
               /\ b.edges[j].source = edgeRows[j].source
               /\ b.edges[j].target = edgeRows[j].node

GotResultTable(r) ==
    /\ op[r] = "graph"
    /\ reply[r].kind = "resolved"
    /\ reply[r].status = 200
    /\ reply[r].data.t = "results"

\* C3 as stated: for every result table of N rows answered with status 200,
\* GET /graph answers 200 with N nodes in row order and one edge per row whose
\* source is bound, in row order, with that row's node as target.
C3_FlattenEveryTable ==
    \A r \in Reqs : GotResultTable(r) => GraphAsClaimed(r)

\* C3 amended: the same, for the result tables whose rows all bind the node
\* column.
C3_FlattenTablesWithNodes ==
    \A r \in Reqs :
        (GotResultTable(r) /\ \A i \in 1..Len(reply[r].data.rows) : HasNode(reply[r].data.rows[i]))
            => GraphAsClaimed(r)

\* two rows with the same node, the second without a source, were flattened
C3_Witness ==
    \E r \in Reqs :
        /\ GotResultTable(r)
        /\ Answered(r)
        /\ Len(reply[r].data.rows) = 2
        /\ reply[r].data.rows[1].node = reply[r].data.rows[2].node
        /\ HasNode(reply[r].data.rows[1])
        /\ HasSource(reply[r].data.rows[1])
        /\ ~HasSource(reply[r].data.rows[2])
        /\ reply[r].data.rows[2].label = Unbound
        /\ Len(TheResponse(r).body.nodes) = 2
        /\ Len(TheResponse(r).body.edges) = 1

StoreAnswered(r) == reply[r].kind \in {"resolved", "rejected"}

IsSuccess(resp, tid) ==
    /\ resp.status = 200
    /\ HasKey(resp.body, "termId")
    /\ resp.body.termId = tid

IsWarning(resp, status) ==
    /\ resp.status = status
    /\ HasKey(resp.body, "message")
    /\ ~HasKey(resp.body, "termId")
    /\ ~HasKey(resp.body, "error")

IsErrorBody(resp, status) ==
    /\ resp.status = status
    /\ HasKey(resp.body, "error")
    /\ ~HasKey(resp.body, "message")
    /\ ~HasKey(resp.body, "termId")
    /\ ~HasKey(resp.body, "graphDbStatus")

\* C5 as stated: an accepted insertion is answered with the success response
\* (200 and the generated termId) iff the store answered 204; for every other
\* status of the store the client gets that status with a warning-style
\* message and no success result.
C5_WarningForEveryOtherStatus ==
    \A r \in Reqs :
        (op[r] = "insert" /\ pc[r] = "responded" /\ sent[r] # <<>>) =>
            /\ Answered(r)
            /\ IsSuccess(TheResponse(r), termId[r]) <=> (StoreAnswered(r) /\ reply[r].status = 204)
            /\ (StoreAnswered(r) /\ reply[r].status # 204) =>
                   IsWarning(TheResponse(r), reply[r].status)

\* C5 amended: the success response iff the store answered 204; every other
\* status of the store is passed on as the status of the response, with the
\* warning-style message when it is another 2xx status and with an error body
\* otherwise, and never with the success result.
C5_PassThrough ==
    \A r \in Reqs :
        (op[r] = "insert" /\ pc[r] = "responded" /\ sent[r] # <<>>) =>
            /\ Answered(r)
            /\ IsSuccess(TheResponse(r), termId[r]) <=> (StoreAnswered(r) /\ reply[r].status = 204)
            /\ (StoreAnswered(r) /\ reply[r].status # 204) =>
                   IF reply[r].status >= 200 /\ reply[r].status < 300
                   THEN /\ IsWarning(TheResponse(r), reply[r].status)
                        /\ TheResponse(r).body.graphDbStatus = reply[r].status
                   ELSE IsErrorBody(TheResponse(r), reply[r].status)

\* the store answered an update with 200 and the client got the warning
C5_Witness ==
    \E r \in Reqs :
        /\ op[r] = "insert"
        /\ reply[r] = Resolved(200, Payload)
        /\ Answered(r)
        /\ IsWarning(TheResponse(r), 200)

GenericOf(r) == IF op[r] = "insert" THEN InsertGeneric ELSE GraphGeneric

\* C6: when the store is unreachable (the outbound call fails with no store
\* response), POST /insert-term with a valid label and GET /graph both answer
\* 500 with the generic failure message, from inside the handler.
C6_Unreachable ==
    \A r \in Reqs :
        reply[r] = ConnectionFailure =>
            /\ Answered(r)
            /\ TheResponse(r).by = "handler"
            /\ TheResponse(r).status = 500
            /\ TheResponse(r).body = [error |-> GenericOf(r)]

\* an insertion with a label and a comment found the store unreachable
C6_Witness ==
    \E r \in Reqs :
        /\ op[r] = "insert"
        /\ Truthy(body[r].label) /\ Truthy(body[r].comment)
        /\ sent[r] # <<>>
        /\ reply[r] = ConnectionFailure
        /\ Answered(r)

Accepted(r) == op[r] = "insert" /\ sent[r] # <<>>

\* C7: any two distinct accepted insertions served by one process are given
\* distinct term identifiers, also when both read the clock at the same
\* instant.
C7_DistinctTermIds ==
    \A r1, r2 \in Reqs :
        (r1 # r2 /\ Accepted(r1) /\ Accepted(r2)) => termId[r1] # termId[r2]

\* C8 as stated: whenever the store answers GET /graph's query with a status
\* other than 200, the response has the store's status and its body carries a
\* descriptive message together with graphDbStatus.
C8_MessageForEveryOtherStatus ==
    \A r \in Reqs :
        (op[r] = "graph" /\ StoreAnswered(r) /\ reply[r].status # 200) =>
            /\ Answered(r)
            /\ TheResponse(r).status = reply[r].status
            /\ HasKey(TheResponse(r).body, "message")
            /\ HasKey(TheResponse(r).body, "graphDbStatus")
            /\ TheResponse(r).body.graphDbStatus = reply[r].status

\* C8 amended: whenever the store answers the query with a status other than
\* 200, the response has the store's status; its body carries the message and
\* graphDbStatus when the status is another 2xx status, and only an error
\* (the store's payload, or the generic message) otherwise.
C8_PassThrough ==
    \A r \in Reqs :
        (op[r] = "graph" /\ StoreAnswered(r) /\ reply[r].status # 200) =>
            /\ Answered(r)
            /\ TheResponse(r).status = reply[r].status
            /\ IF reply[r].status >= 200 /\ reply[r].status < 300
               THEN /\ IsWarning(TheResponse(r), reply[r].status)
                    /\ TheResponse(r).body.graphDbStatus = reply[r].status
               ELSE /\ IsErrorBody(TheResponse(r), reply[r].status)
                    /\ TheResponse(r).body.error \in {"store payload", GraphGeneric}

\* the store answered the query with 202 and the client got message and status
C8_Witness ==
    \E r \in Reqs :
        /\ op[r] = "graph"
        /\ reply[r].kind = "resolved" /\ reply[r].status = 202
        /\ Answered(r)
        /\ TheResponse(r).body.graphDbStatus = 202

NoStructuredPayload(r) ==
    \/ reply[r] = ConnectionFailure
    \/ reply[r].kind = "rejected" /\ reply[r].data.t = "empty"

\* C9 as stated: for both operations, whenever the outbound call fails and the
\* store supplied no structured error payload (a connection failure, or an
\* error response with an empty body whatever its status), the client gets a
\* 500-class response with the generic failure message.
C9_Generic500Class ==
    \A r \in Reqs :
        NoStructuredPayload(r) =>
            /\ Answered(r)
            /\ TheResponse(r).status >= 500 /\ TheResponse(r).status <= 599
            /\ TheResponse(r).body = [error |-> GenericOf(r)]

\* C9 amended: in those cases the client gets the generic failure message;
\* the status is 500 after a connection failure and the store's own status
\* after an error response with an empty body.
C9_GenericMessage ==
    \A r \in Reqs :
        NoStructuredPayload(r) =>
            /\ Answered(r)
            /\ TheResponse(r).body = [error |-> GenericOf(r)]
            /\ TheResponse(r).status =
                   (IF reply[r] = ConnectionFailure THEN 500 ELSE reply[r].status)

\* the store answered the query 404 with an empty body
C9_Witness ==
    \E r \in Reqs :
        /\ op[r] = "graph"
        /\ reply[r] = RejectedWith(404, NoData)
        /\ Answered(r)
        /\ TheResponse(r).body = [error |-> GraphGeneric]

\* C10: every request, for every JSON body (a label or comment that is no
\* string included) and every store behaviour, ends with exactly one response
\* sent by the handler; no fault is raised outside the handler's error path.
\* Stated on the states a request passes: it never faults outside the
\* handler, nothing but the handler answers it, and once it is no longer
\* waiting for the store it has been answered exactly once.
C10_AnsweredByHandler ==
    \A r \in Reqs :
        /\ pc[r] # "faulted"
        /\ \A i \in 1..Len(responses[r]) : responses[r][i].by = "handler"
        /\ pc[r] \in {"idle", "awaiting"} => responses[r] = <<>>
        /\ pc[r] = "responded" => Len(responses[r]) = 1

====
